---- MODULE Spec2Model ----
(***************************************************************************)
(* Movement engine of tank-tactics (src/src/server.rs): a Game owns one    *)
(* Board and a Vec<Tank>; make_move validates and commits a one-cell move, *)
(* set_tank_position overwrites a position after a bounds check only.      *)
(***************************************************************************)
EXTENDS Integers, Sequences, FiniteSets, TLC

\* Bounds of the explored boards.
MaxLength == 3
MaxHeight == 3

\* Values the tests and main.rs construct tanks with.
TestLife == 3
TestActionPoints == 1
TestRange == 2

Team == {"Red", "Blue", "Green"}
Direction == {"Up", "Down", "Left", "Right"}

\* The (id, team) rosters games are built with: the one-tank and two-tank games
\* of the tests, and a two-tank game whose ids repeat (nothing enforces
\* distinct ids).
Rosters ==
    { << [id |-> 1, team |-> "Blue"] >>,
      << [id |-> 1, team |-> "Blue"], [id |-> 2, team |-> "Blue"] >>,
      << [id |-> 1, team |-> "Red"], [id |-> 1, team |-> "Green"] >> }

\* Identifiers callers ask for (3 is never a tank).
RequestIds == {1, 2, 3}

VARIABLES game, last
vars == <<game, last>>

\* Option<T>: None is the empty sequence, Some(v) the one-element sequence.
None == << >>
Some(v) == << v >>

\* Result<Position, String>
Ok(p) == [ok |-> TRUE, value |-> Some(p), err |-> None]
Err(m) == [ok |-> FALSE, value |-> None, err |-> Some(m)]

Position(px, py) == [x |-> px, y |-> py]

\* impl Display for Position: "{},{}"
PositionDisplay(p) == ToString(p.x) \o "," \o ToString(p.y)

\* impl Display for Direction: "{:?}", the variant's name
DirectionDisplay(d) ==
    CASE d = "Up" -> "Up"
      [] d = "Down" -> "Down"
      [] d = "Left" -> "Left"
      [] d = "Right" -> "Right"

\* format!("Illegal to move {} from {}", direction, tank.position)
IllegalMoveMessage(direction, position) ==
    "Illegal to move " \o DirectionDisplay(direction) \o " from " \o PositionDisplay(position)

TankNotFoundMessage == "Tank id not found"

\* The message todo!() panics with.
TodoMessage == "not yet implemented"

Tank_new(life, action_points, team, range, position, name, id) ==
    [life |-> life, action_points |-> action_points, team |-> team, range |-> range,
     position |-> position, name |-> name, id |-> id]

\* tanks.iter().find(|x| x.id == tank_id): index of the first match, 0 when none.
find_index(tanks, tank_id) ==
    IF \E i \in 1..Len(tanks) : tanks[i].id = tank_id
    THEN CHOOSE i \in 1..Len(tanks) :
            /\ tanks[i].id = tank_id
            /\ \A j \in 1..(i - 1) : tanks[j].id # tank_id
    ELSE 0

get_tank(g, tank_id) ==
    LET i == find_index(g.tanks, tank_id)
    IN IF i = 0 THEN None ELSE Some(g.tanks[i])

\* u32::checked_sub
checked_sub(a, b) == IF a >= b THEN Some(a - b) ELSE None

\* Mutant: Right compares with <= instead of <.
dest_position_right_le(board, position, direction) ==
    CASE direction = "Right" ->
            IF position.x + 1 <= board.length
            THEN Some(Position(position.x + 1, position.y)) ELSE None
      [] direction = "Up" ->
            LET y == checked_sub(position.y, 1)
            IN IF y # None THEN Some(Position(position.x, y[1])) ELSE None
      [] direction = "Down" ->
            IF position.y + 1 < board.height
            THEN Some(Position(position.x, position.y + 1)) ELSE None
      [] direction = "Left" ->
            LET x == checked_sub(position.x, 1)
            IN IF x # None THEN Some(Position(x[1], position.y)) ELSE None

\* Mutant: Left and Up keep the old coordinate instead of the decremented one.
dest_position_stale_sub(board, position, direction) ==
    CASE direction = "Right" ->
            IF position.x + 1 < board.length
            THEN Some(Position(position.x + 1, position.y)) ELSE None
      [] direction = "Up" ->
            LET y == checked_sub(position.y, 1)
            IN IF y # None THEN Some(Position(position.x, position.y)) ELSE None
      [] direction = "Down" ->
            IF position.y + 1 < board.height
            THEN Some(Position(position.x, position.y + 1)) ELSE None
      [] direction = "Left" ->
            LET x == checked_sub(position.x, 1)
            IN IF x # None THEN Some(Position(position.x, position.y)) ELSE None

\* The match on direction in make_move: Some(dest_position), or None where the
\* code returns err.  Positions on the board satisfy x + 1 <= length <= u32::MAX,
\* so the additions do not overflow.
dest_position(board, position, direction) ==
    CASE direction = "Right" ->
            IF position.x + 1 < board.length
            THEN Some(Position(position.x + 1, position.y)) ELSE None
      [] direction = "Up" ->
            LET y == checked_sub(position.y, 1)
            IN IF y # None THEN Some(Position(position.x, y[1])) ELSE None
      [] direction = "Down" ->
            IF position.y + 1 < board.height
            THEN Some(Position(position.x, position.y + 1)) ELSE None
      [] direction = "Left" ->
            LET x == checked_sub(position.x, 1)
            IN IF x # None THEN Some(Position(x[1], position.y)) ELSE None

\* Mutant: the occupancy scan is dropped.
occupied_never(tanks, dest) == FALSE

\* Mutant: the occupancy scan stops one tank short.
occupied_skips_last(tanks, dest) ==
    \E i \in 1..(Len(tanks) - 1) : tanks[i].position = dest

\* tanks.iter().find(|x| x.position == dest_position) is Some
occupied(tanks, dest) ==
    \E i \in 1..Len(tanks) : tanks[i].position = dest

\* Mutant: the new position is written to the cloned tanks, not to self.tanks.
make_move_on_clone(g, tank_id, direction) ==
    LET tanks == g.tanks
        i == find_index(g.tanks, tank_id)
    IN IF i # 0
       THEN LET tank == g.tanks[i]
                err == Err(IllegalMoveMessage(direction, tank.position))
                dest == dest_position(g.board, tank.position, direction)
            IN IF dest = None
               THEN [game |-> g, result |-> err]
               ELSE IF occupied(tanks, dest[1])
                    THEN [game |-> g, result |-> err]
                    ELSE [game |-> g, result |-> Ok(dest[1])]
       ELSE [game |-> g, result |-> Err(TankNotFoundMessage)]

\* Mutant: a committed move also spends one of the tank's action points.
make_move_spends_action_point(g, tank_id, direction) ==
    LET tanks == g.tanks
        i == find_index(g.tanks, tank_id)
    IN IF i # 0
       THEN LET tank == g.tanks[i]
                err == Err(IllegalMoveMessage(direction, tank.position))
                dest == dest_position(g.board, tank.position, direction)
            IN IF dest = None
               THEN [game |-> g, result |-> err]
               ELSE IF occupied(tanks, dest[1])
                    THEN [game |-> g, result |-> err]
                    ELSE [game |-> [g EXCEPT !.tanks[i].position = dest[1],
                                              !.tanks[i].action_points =
                                                  IF @ > 0 THEN @ - 1 ELSE 0],
                          result |-> Ok(dest[1])]
       ELSE [game |-> g, result |-> Err(TankNotFoundMessage)]

\* Mutant: an unknown id falls back to the first tank.
make_move_unknown_moves_first(g, tank_id, direction) ==
    LET tanks == g.tanks
        i == IF find_index(g.tanks, tank_id) = 0 THEN 1 ELSE find_index(g.tanks, tank_id)
    IN IF i # 0
       THEN LET tank == g.tanks[i]
                err == Err(IllegalMoveMessage(direction, tank.position))
                dest == dest_position(g.board, tank.position, direction)
            IN IF dest = None
               THEN [game |-> g, result |-> err]
               ELSE IF occupied(tanks, dest[1])
                    THEN [game |-> g, result |-> err]
                    ELSE [game |-> [g EXCEPT !.tanks[i].position = dest[1]],
                          result |-> Ok(dest[1])]
       ELSE [game |-> g, result |-> Err(TankNotFoundMessage)]

\* Game::make_move: the game after the call and the Result it returns.  tanks is
\* the clone taken before the lookup; the commit writes self.tanks[i].position
\* and returns it.
make_move(g, tank_id, direction) ==
    LET tanks == g.tanks
        i == find_index(g.tanks, tank_id)
    IN IF i # 0
       THEN LET tank == g.tanks[i]
                err == Err(IllegalMoveMessage(direction, tank.position))
                dest == dest_position(g.board, tank.position, direction)
            IN IF dest = None
               THEN [game |-> g, result |-> err]
               ELSE IF occupied(tanks, dest[1])
                    THEN [game |-> g, result |-> err]
                    ELSE [game |-> [g EXCEPT !.tanks[i].position = dest[1]],
                          result |-> Ok(dest[1])]
       ELSE [game |-> g, result |-> Err(TankNotFoundMessage)]

\* What a call of set_tank_position ends in: a return of (), or a panic.
Returned == [panic |-> FALSE, message |-> None]
Panicked(m) == [panic |-> TRUE, message |-> Some(m)]

\* Mutant: the bounds test uses <= instead of <.
set_tank_position_le(g, tank_id, position) ==
    LET l == g.board.length
        h == g.board.height
        i == find_index(g.tanks, tank_id)
    IN IF i # 0
       THEN IF position.x <= l /\ position.y <= h
            THEN [game |-> [g EXCEPT !.tanks[i].position = position], outcome |-> Returned]
            ELSE [game |-> g, outcome |-> Returned]
       ELSE [game |-> g, outcome |-> Panicked(TodoMessage)]

\* Mutant: a cell another tank holds is refused, as make_move refuses it.
set_tank_position_checks_occupancy(g, tank_id, position) ==
    LET l == g.board.length
        h == g.board.height
        i == find_index(g.tanks, tank_id)
    IN IF i # 0
       THEN IF position.x < l /\ position.y < h /\ ~occupied(g.tanks, position)
            THEN [game |-> [g EXCEPT !.tanks[i].position = position], outcome |-> Returned]
            ELSE [game |-> g, outcome |-> Returned]
       ELSE [game |-> g, outcome |-> Panicked(TodoMessage)]

\* Mutant: an unknown id is ignored.
set_tank_position_silent(g, tank_id, position) ==
    LET l == g.board.length
        h == g.board.height
        i == find_index(g.tanks, tank_id)
    IN IF i # 0
       THEN IF position.x < l /\ position.y < h
            THEN [game |-> [g EXCEPT !.tanks[i].position = position], outcome |-> Returned]
            ELSE [game |-> g, outcome |-> Returned]
       ELSE [game |-> g, outcome |-> Returned]

\* Game::set_tank_position: the game after the call and how the call ends.
\* The None arm is todo!(), which panics.
set_tank_position(g, tank_id, position) ==
    LET l == g.board.length
        h == g.board.height
        i == find_index(g.tanks, tank_id)
    IN IF i # 0
       THEN IF position.x < l /\ position.y < h
            THEN [game |-> [g EXCEPT !.tanks[i].position = position], outcome |-> Returned]
            ELSE [game |-> g, outcome |-> Returned]
       ELSE [game |-> g, outcome |-> Panicked(TodoMessage)]

----------------------------------------------------------------------------
\* State: the Game, and a record of the last call made on it (the game it was
\* made on, its arguments, what it returned).

Boards == [length : 1..MaxLength, height : 1..MaxHeight]
Cells(board) == [x : 0..(board.length - 1), y : 0..(board.height - 1)]

\* Positions handed to set_tank_position: every cell, and the cells one past
\* the right and bottom edges.
RequestedPositions(board) == [x : 0..board.length, y : 0..board.height]

NoResult == [ok |-> FALSE, value |-> None, err |-> None]

NoCall(g) ==
    [op |-> "none", tank_id |-> 0, direction |-> None, position |-> None,
     pre |-> g, result |-> NoResult, outcome |-> Returned]

\* A Game literal as the tests build it: every tank on the board; ids and cells
\* are the caller's business and may repeat.
Init ==
    \E b \in Boards, roster \in Rosters :
      \E ps \in [1..Len(roster) -> Cells(b)] :
        /\ \A i \in 1..Len(roster) : roster[i].team \in Team
        /\ game = [board |-> b,
                   tanks |-> [i \in 1..Len(roster) |->
                               Tank_new(TestLife, TestActionPoints, roster[i].team,
                                        TestRange, ps[i], "Test", roster[i].id)]]
        /\ last = NoCall(game)

\* A panic unwinds out of the caller: no further call is made on the game.
Running == ~last.outcome.panic

MakeMove(tank_id, direction) ==
    /\ Running
    /\ LET r == make_move(game, tank_id, direction)
       IN /\ game' = r.game
          /\ last' = [op |-> "make_move", tank_id |-> tank_id,
                      direction |-> Some(direction), position |-> None,
                      pre |-> game, result |-> r.result, outcome |-> Returned]

SetTankPosition(tank_id, position) ==
    /\ Running
    /\ LET r == set_tank_position(game, tank_id, position)
       IN /\ game' = r.game
          /\ last' = [op |-> "set_tank_position", tank_id |-> tank_id,
                      direction |-> None, position |-> Some(position),
                      pre |-> game, result |-> NoResult, outcome |-> r.outcome]

Next ==
    \/ \E tank_id \in RequestIds, direction \in Direction : MakeMove(tank_id, direction)
    \/ \E tank_id \in RequestIds, position \in RequestedPositions(game.board) :
          SetTankPosition(tank_id, position)

Spec == Init /\ [][Next]_vars

\* Only make_move is called, on a game whose tanks start on pairwise distinct
\* cells with distinct ids.
DistinctIds(g) ==
    \A i, j \in 1..Len(g.tanks) : i # j => g.tanks[i].id # g.tanks[j].id

NoOverlap(g) ==
    \A i, j \in 1..Len(g.tanks) : i # j => g.tanks[i].position # g.tanks[j].position

InitMoves == Init /\ DistinctIds(game) /\ NoOverlap(game)

NextMoves ==
    \E tank_id \in RequestIds, direction \in Direction : MakeMove(tank_id, direction)

SpecMoves == InitMoves /\ [][NextMoves]_vars

----------------------------------------------------------------------------
\* Vocabulary of the properties, over the record of the last call.

pre == last.pre
CalledMakeMove == last.op = "make_move"
CalledSetTankPosition == last.op = "set_tank_position"

\* The tank the call's id resolved to in the game the call was made on.
PreIdx == find_index(pre.tanks, last.tank_id)
Resolved == PreIdx # 0
From == pre.tanks[PreIdx].position
Dir == last.direction[1]
Requested == last.position[1]

\* The destination as the direction's coordinate delta, in signed arithmetic.
DeltaX(d) == CASE d = "Right" -> 1 [] d = "Left" -> -1 [] OTHER -> 0
DeltaY(d) == CASE d = "Down" -> 1 [] d = "Up" -> -1 [] OTHER -> 0
Candidate(p, d) == [x |-> p.x + DeltaX(d), y |-> p.y + DeltaY(d)]

Inside(board, p) == 0 <= p.x /\ p.x < board.length /\ 0 <= p.y /\ p.y < board.height
AllInBounds(g) == \A i \in 1..Len(g.tanks) : Inside(g.board, g.tanks[i].position)

AtEdgeFacing(board, p, d) ==
    \/ d = "Left" /\ p.x = 0
    \/ d = "Up" /\ p.y = 0
    \/ d = "Right" /\ p.x = board.length - 1
    \/ d = "Down" /\ p.y = board.height - 1

HeldByAnother(g, i, p) == \E j \in 1..Len(g.tanks) : j # i /\ g.tanks[j].position = p
Held(g, p) == \E j \in 1..Len(g.tanks) : g.tanks[j].position = p

PositionsUnchanged ==
    /\ Len(game.tanks) = Len(pre.tanks)
    /\ \A j \in 1..Len(pre.tanks) : game.tanks[j].position = pre.tanks[j].position

\* The error make_move returns where the destination leaves the board.
OutOfBoundsError(d, p) == Err(IllegalMoveMessage(d, p))

----------------------------------------------------------------------------
\* C1: a move toward the edge the tank stands at (x = 0 Left, y = 0 Up,
\* x = length-1 Right, y = height-1 Down) fails with the out-of-bounds error,
\* which names the direction and the origin, and the tank stays where it was.
C1_EdgeMoveFails ==
    (CalledMakeMove /\ Resolved /\ AtEdgeFacing(pre.board, From, Dir)) =>
        /\ ~last.result.ok
        /\ last.result = OutOfBoundsError(Dir, From)
        /\ game.tanks[PreIdx].position = From

C1_Witness ==
    /\ CalledMakeMove /\ Resolved
    /\ Dir = "Right" /\ From.x = pre.board.length - 1 /\ pre.board.length > 1
    /\ ~last.result.ok

\* C2 as stated: a move onto the cell of a different tank fails with an outcome
\* distinct from the out-of-bounds error and from the not-found error, and no
\* position changes.
MoveOntoAnother ==
    CalledMakeMove /\ Resolved /\ HeldByAnother(pre, PreIdx, Candidate(From, Dir))

Opposite(d) == CASE d = "Right" -> "Left" [] d = "Down" -> "Up"

Interior(board, p, d) ==
    \/ d = "Right" /\ p.x + 1 < board.length
    \/ d = "Down" /\ p.y + 1 < board.height

FirstLeg(d) == CalledMakeMove /\ Resolved /\ Dir = d /\ Interior(pre.board, From, d)

RoundTripBack(d) ==
    /\ last.result.ok
    /\ LET back == make_move(game, last.tank_id, Opposite(d))
       IN /\ back.result.ok
          /\ back.game.tanks[PreIdx].position = From

C3_RoundTripFromInterior ==
    \A d \in {"Right", "Down"} :
        (FirstLeg(d) /\ DistinctIds(pre) /\ NoOverlap(pre)) => RoundTripBack(d)

\* C3 amended: from an interior position whose neighbouring cell in the
\* direction of the first move no tank holds, and which no other tank shares,
\* Right then Left (Down then Up) both succeed and bring the tank back.
C3_RoundTripFromFreeInterior ==
    \A d \in {"Right", "Down"} :
        (/\ FirstLeg(d)
         /\ ~Held(pre, Candidate(From, d))
         /\ ~HeldByAnother(pre, PreIdx, From)) => RoundTripBack(d)

C3_Witness ==
    /\ FirstLeg("Down")
    /\ Len(pre.tanks) = 2
    /\ ~Held(pre, Candidate(From, "Down"))
    /\ ~HeldByAnother(pre, PreIdx, From)
    /\ game.tanks[PreIdx].position = Candidate(From, "Down")
    /\ make_move(game, last.tank_id, "Up").result = Ok(From)

\* C4: make_move with an id no tank has fails with the not-found error and
\* leaves every tank and the board as they were.
C4_UnknownIdNotFound ==
    (CalledMakeMove /\ ~Resolved) =>
        /\ last.result = Err(TankNotFoundMessage)
        /\ game = pre

C4_Witness ==
    /\ CalledMakeMove /\ ~Resolved
    /\ Len(pre.tanks) = 2
    /\ Dir = "Right" /\ pre.tanks[1].position.x + 1 < pre.board.length

\* C5: every tank's position is on the board after any sequence of make_move
\* and set_tank_position calls on a game whose tanks started on the board.
C5_InBounds == AllInBounds(game)

C5_Witness ==
    /\ CalledSetTankPosition /\ Resolved
    /\ ~Inside(pre.board, Requested)
    /\ From.x = pre.board.length - 1
    /\ AllInBounds(game)

\* C6: set_tank_position on an id that resolves puts the tank on the requested
\* cell when it is on the board, another tank holding it or not, and otherwise
\* returns without effect; no other tank moves.
C6_ForceSetPosition ==
    (CalledSetTankPosition /\ Resolved) =>
        /\ last.outcome = Returned
        /\ game.tanks[PreIdx].position =
              IF Requested.x < pre.board.length /\ Requested.y < pre.board.height
              THEN Requested ELSE From
        /\ \A j \in 1..Len(pre.tanks) :
              j # PreIdx => game.tanks[j].position = pre.tanks[j].position

C6_Witness ==
    /\ CalledSetTankPosition /\ Resolved
    /\ HeldByAnother(pre, PreIdx, Requested)
    /\ From # Requested
    /\ game.tanks[PreIdx].position = Requested

\* C7: set_tank_position with an id no tank has is not ignored: whatever the
\* requested position, the call panics with the same message, and no tank moves.
C7_UnknownIdFaults ==
    (CalledSetTankPosition /\ ~Resolved) =>
        /\ last.outcome = Panicked(TodoMessage)
        /\ PositionsUnchanged

C7_Witness ==
    /\ CalledSetTankPosition /\ ~Resolved
    /\ last.outcome.panic
    /\ Inside(pre.board, Requested)
    /\ Len(pre.tanks) = 2

\* C8: with distinct ids and all tanks on the board, make_move succeeds exactly
\* when the tank exists, its position plus the direction's delta is on the
\* board, and no tank holds that cell before the move; the position returned is
\* that cell, and it is the position get_tank reports afterwards.
C8_SuccessExactly ==
    (CalledMakeMove /\ DistinctIds(pre) /\ AllInBounds(pre)) =>
        /\ last.result.ok <=>
              (Resolved /\ Inside(pre.board, Candidate(From, Dir))
                        /\ ~Held(pre, Candidate(From, Dir)))
        /\ last.result.ok =>
              /\ last.result.value = Some(Candidate(From, Dir))
              /\ get_tank(game, last.tank_id) # None
              /\ get_tank(game, last.tank_id)[1].position = Candidate(From, Dir)

C8_Witness ==
    /\ CalledMakeMove /\ DistinctIds(pre) /\ Len(pre.tanks) = 2
    /\ last.tank_id = 2 /\ Dir = "Up"
    /\ last.result.ok
    /\ game.tanks[2].position.y + 1 = pre.tanks[2].position.y

\* C9: a successful make_move changes the position of the addressed tank and
\* nothing else: not another tank, not any other field of any tank, not the
\* order or number of tanks, not the board.
C9_MoveFrame ==
    (CalledMakeMove /\ last.result.ok) =>
        /\ game.board = pre.board
        /\ Len(game.tanks) = Len(pre.tanks)
        /\ \A j \in 1..Len(pre.tanks) :
              IF j = PreIdx
              THEN [game.tanks[j] EXCEPT !.position = From] = pre.tanks[j]
              ELSE game.tanks[j] = pre.tanks[j]

C9_Witness ==
    /\ CalledMakeMove /\ last.result.ok
    /\ Len(pre.tanks) = 2
    /\ game.tanks[PreIdx].position # From

\* C10: tanks that start on pairwise distinct cells with distinct ids never
\* share a cell after any sequence of make_move calls.
C10_NoOverlap == NoOverlap(game)

C10_Witness ==
    /\ MoveOntoAnother
    /\ ~last.result.ok
    /\ NoOverlap(game)

====
